---- MODULE Spec2Model ----
(***************************************************************************)
(* Model of src/script3.py: a Telegram relay that classifies every new     *)
(* message (stop words, near-duplicate suppression, key words) and         *)
(* forwards it to one of two destinations.                                 *)
(*                                                                         *)
(* The script starts by running its module body, validate_config() and     *)
(* main(); Spec describes the relay once it runs with a complete           *)
(* configuration, StartupSpec the whole run from any configuration.        *)
(*                                                                         *)
(* A text is a sequence of one-character strings.  Time is counted in      *)
(* seconds.  The handler is a coroutine: what runs between two awaits that *)
(* really suspend (the forward calls and the sleeps) is one atomic step,   *)
(* and the client starts one handler task per incoming event without       *)
(* waiting for the previous one to finish.  A handler that has returned is *)
(* no longer part of the state.                                            *)
(***************************************************************************)
EXTENDS Integers, Sequences, FiniteSets, TLC

VARIABLES
    config,         \* config.py: for every required variable, what it holds
    startup,        \* how far the start of the script has come, and its error
    now,            \* datetime.now(), in seconds (the same within one step)
    message_store,  \* the duplicate store: stored text -> time of admission
    inbox,          \* the event the client has received and not yet dispatched
    handlers,       \* the handler tasks that have not returned yet, by event number,
                    \* each with the time at which it was started
    dispatched,     \* number of events handed to a handler task so far
    last            \* the event dispatched last: its text, the decision, and
                    \* the entries that left the store (removed or replaced)

vars == <<config, startup, now, message_store, inbox, handlers, dispatched,
         last>>

----------------------------------------------------------------------------
(* Bounds of the model *)

\* number of events the event source delivers in one run
MaxMsgs == 2

\* the instants (seconds) at which the run is observed: the start, one
\* minute later, and 24 h and 24 h 1 min after the start
Instants == {0, 60, 86400, 86460}

----------------------------------------------------------------------------
(* Program constants *)

\* FILTER_DURATION = timedelta(days=1), in seconds
FILTER_DURATION == 86400

SIMILARITY_THRESHOLD == 90

\* asyncio.sleep(2) after a forward to DESTINATION
PACING_DELAY == 2

\* asyncio.sleep(60) in the except branch
ERROR_DELAY == 60

DESTINATION == "DESTINATION"

STOP_WORDS_DESTINATION == "STOP_WORDS_DESTINATION"

----------------------------------------------------------------------------
(* Configuration (config.py) and the texts the watched chats send *)

\* "Deal"
KEY_WORDS == { <<"D","e","a","l">> }

\* "Great Deals"
STOP_WORDS == { <<"G","r","e","a","t"," ","D","e","a","l","s">> }

\* "GREAT DEAL": a key word, no stop word
TxtCaps == <<"G","R","E","A","T"," ","D","E","A","L">>

\* "GREAT DEAl": one letter of TxtCaps changed
TxtCapsL == <<"G","R","E","A","T"," ","D","E","A","l">>

\* "Great  deal!": TxtCaps in another case, spacing and punctuation
TxtMixed == <<"G","r","e","a","t"," "," ","d","e","a","l","!">>

\* "GREAT DEALS": a stop word and a key word
TxtStop == <<"G","R","E","A","T"," ","D","E","A","L","S">>

\* "GREAT DE<TAB>ALS": the tab keeps the key word and the stop word apart
TxtTab == <<"G","R","E","A","T"," ","D","E","\t","A","L","S">>

\* a message without text (a photo, a sticker)
TxtNone == << >>

Texts == { TxtCaps, TxtCapsL, TxtMixed, TxtStop, TxtTab, TxtNone }

----------------------------------------------------------------------------
(* Text functions *)

UpperCase == <<"A","B","C","D","E","F","G","H","I","J","K","L","M",
               "N","O","P","Q","R","S","T","U","V","W","X","Y","Z">>

LowerCase == <<"a","b","c","d","e","f","g","h","i","j","k","l","m",
               "n","o","p","q","r","s","t","u","v","w","x","y","z">>

\* str.lower() on one character
LowerChar(c) ==
    IF \E i \in 1..Len(UpperCase) : UpperCase[i] = c
    THEN LowerCase[CHOOSE i \in 1..Len(UpperCase) : UpperCase[i] = c]
    ELSE c

\* str.lower()
lower(text) == [i \in 1..Len(text) |-> LowerChar(text[i])]

\* remove_spaces removing every whitespace character
RemoveWhitespace(text) == SelectSeq(text, LAMBDA c : c \notin {" ", "\t", "\n"})

\* remove_spaces removing the first space only: text.replace(" ", "", 1)
RemoveFirstSpace(text) ==
    IF \E i \in 1..Len(text) : text[i] = " "
    THEN LET i == CHOOSE i \in 1..Len(text) :
                     /\ text[i] = " "
                     /\ \A j \in 1..(i - 1) : text[j] # " "
         IN  SubSeq(text, 1, i - 1) \o SubSeq(text, i + 1, Len(text))
    ELSE text

\* text.replace(" ", ""): only the space character is removed
remove_spaces(text) == SelectSeq(text, LAMBDA c : c # " ")

\* Python's `p in s` on strings
IsSubstring(p, s) ==
    \E i \in 0..(Len(s) - Len(p)) : SubSeq(s, i + 1, i + Len(p)) = p

STOP_WORDS_SET == { lower(word) : word \in STOP_WORDS }

KEY_WORDS_SET == { lower(word) : word \in KEY_WORDS }

contains_stop_words(message_text) ==
    LET clean_message_text == remove_spaces(lower(message_text))
    IN  \E stop_word \in STOP_WORDS_SET :
            IsSubstring(remove_spaces(stop_word), clean_message_text)

\* the key-word test of the handler
contains_key_words(message_text) ==
    LET clean_message_text == remove_spaces(lower(message_text))
    IN  \E key_word \in KEY_WORDS_SET :
            IsSubstring(remove_spaces(key_word), clean_message_text)

\* the two word tests of the texts of the model, as a table built once (@@
\* turns the function into an explicit table)
WordTests ==
    [t \in Texts |-> [stop |-> contains_stop_words(t),
                      key  |-> contains_key_words(t)]] @@ << >>

\* contains_stop_words, looked up when the text is a text of the model
ContainsStopWords(text) ==
    IF text \in DOMAIN WordTests THEN WordTests[text].stop
    ELSE contains_stop_words(text)

\* the key-word test, looked up when the text is a text of the model
ContainsKeyWords(text) ==
    IF text \in DOMAIN WordTests THEN WordTests[text].key
    ELSE contains_key_words(text)

Max(a, b) == IF a >= b THEN a ELSE b

\* one row of the longest-common-subsequence table: cur holds the cells of
\* columns 0..Len(cur)-1 of the row of character c, prev is the row above
RECURSIVE LcsRow(_, _, _, _)
LcsRow(prev, c, s2, cur) ==
    IF Len(cur) = Len(s2) + 1 THEN cur
    ELSE LET j == Len(cur)
             v == IF s2[j] = c THEN prev[j] + 1
                  ELSE Max(prev[j + 1], cur[j])
         IN  LcsRow(prev, c, s2, Append(cur, v))

RECURSIVE LcsRows(_, _, _)
LcsRows(s1, s2, prev) ==
    IF s1 = <<>> THEN prev[Len(s2) + 1]
    ELSE LcsRows(Tail(s1), s2, LcsRow(prev, Head(s1), s2, <<0>>))

\* length of the longest common subsequence of s1 and s2
LCS(s1, s2) == LcsRows(s1, s2, [j \in 1..(Len(s2) + 1) |-> 0])

\* fuzz.ratio: 100 * (1 - indel_distance / (len1 + len2)) with
\* indel_distance = len1 + len2 - 2 * LCS; the integer part is kept, which
\* decides a comparison with an integer threshold exactly
ratio(s1, s2) ==
    IF Len(s1) + Len(s2) = 0 THEN 100
    ELSE (200 * LCS(s1, s2)) \div (Len(s1) + Len(s2))

----------------------------------------------------------------------------
(* The duplicate store: a function from the stored texts to their times *)

\* the ratios of the texts of the model, as a table built once (@@ turns the
\* function into an explicit table)
RatioOfTexts == [p \in Texts \X Texts |-> ratio(p[1], p[2])] @@ << >>

\* fuzz.ratio, looked up when both texts are texts of the model
Ratio(s1, s2) ==
    IF <<s1, s2>> \in DOMAIN RatioOfTexts
    THEN RatioOfTexts[<<s1, s2>>]
    ELSE ratio(s1, s2)

\* is_similar with the threshold taken as exclusive
IsSimilarStrict(store, message_text) ==
    \E stored_message \in DOMAIN store :
        Ratio(stored_message, message_text) > SIMILARITY_THRESHOLD

\* is_similar comparing the normalized texts instead of the raw ones
IsSimilarNormalized(store, message_text) ==
    \E stored_message \in DOMAIN store :
        ratio(remove_spaces(lower(stored_message)),
              remove_spaces(lower(message_text))) >= SIMILARITY_THRESHOLD

\* is_similar finding only a stored text equal to the message
IsSimilarExact(store, message_text) == message_text \in DOMAIN store

is_similar(store, message_text) ==
    \E stored_message \in DOMAIN store :
        Ratio(stored_message, message_text) >= SIMILARITY_THRESHOLD

\* remove_old_messages removing nothing
RemoveNothing(store, current_time) == store

\* remove_old_messages removing the entries aged FILTER_DURATION or more
RemoveOldInclusive(store, current_time) ==
    LET to_remove == { msg \in DOMAIN store :
                         current_time - store[msg] >= FILTER_DURATION }
    IN  [msg \in (DOMAIN store) \ to_remove |-> store[msg]]

remove_old_messages(store, current_time) ==
    LET to_remove == { msg \in DOMAIN store :
                         current_time - store[msg] > FILTER_DURATION }
    IN  [msg \in (DOMAIN store) \ to_remove |-> store[msg]]

\* message_store[text] = datetime.now()
Admit(store, text, current_time) ==
    [msg \in (DOMAIN store) \cup {text} |->
        IF msg = text THEN current_time ELSE store[msg]]

----------------------------------------------------------------------------
(* The decision chain of new_message_handler, up to its first forward call *)

\* the decision chain with the duplicate check moved before the stop words
ClassifyDedupFirst(store, text, current_time) ==
    IF text = <<>>
    THEN [outcome |-> "notext", store |-> store]
    ELSE LET live == remove_old_messages(store, current_time)
         IN  IF is_similar(live, text)
             THEN [outcome |-> "duplicate", store |-> live]
             ELSE IF ContainsStopWords(text)
             THEN [outcome |-> "stop", store |-> live]
             ELSE IF ContainsKeyWords(text)
             THEN [outcome |-> "primary",
                   store |-> Admit(live, text, current_time)]
             ELSE [outcome |-> "nokey", store |-> live]

\* the decision chain storing the normalized text instead of the raw one
ClassifyAdmitNormalized(store, text, current_time) ==
    IF text = <<>>
    THEN [outcome |-> "notext", store |-> store]
    ELSE LET live == remove_old_messages(store, current_time)
         IN  IF ContainsStopWords(text)
             THEN [outcome |-> "stop", store |-> live]
             ELSE IF is_similar(live, text)
             THEN [outcome |-> "duplicate", store |-> live]
             ELSE IF ContainsKeyWords(text)
             THEN [outcome |-> "primary",
                   store |-> Admit(live, remove_spaces(lower(text)),
                                   current_time)]
             ELSE [outcome |-> "nokey", store |-> live]

\* the decision chain without the key-word test
ClassifyNoKeyGate(store, text, current_time) ==
    IF text = <<>>
    THEN [outcome |-> "notext", store |-> store]
    ELSE LET live == remove_old_messages(store, current_time)
         IN  IF ContainsStopWords(text)
             THEN [outcome |-> "stop", store |-> live]
             ELSE IF is_similar(live, text)
             THEN [outcome |-> "duplicate", store |-> live]
             ELSE [outcome |-> "primary",
                   store |-> Admit(live, text, current_time)]

\* the decision chain writing the store before the duplicate check
ClassifyAdmitBeforeDedup(store, text, current_time) ==
    IF text = <<>>
    THEN [outcome |-> "notext", store |-> store]
    ELSE LET live == remove_old_messages(store, current_time)
         IN  IF ContainsStopWords(text)
             THEN [outcome |-> "stop", store |-> live]
             ELSE IF ContainsKeyWords(text)
             THEN [outcome |-> IF is_similar(live, text)
                               THEN "duplicate" ELSE "primary",
                   store |-> Admit(live, text, current_time)]
             ELSE [outcome |-> IF is_similar(live, text)
                               THEN "duplicate" ELSE "nokey",
                   store |-> live]

\* the decision chain sweeping the store before the test for a text
ClassifySweepFirst(store, text, current_time) ==
    LET live == remove_old_messages(store, current_time)
    IN  IF text = <<>>
        THEN [outcome |-> "notext", store |-> live]
        ELSE IF ContainsStopWords(text)
        THEN [outcome |-> "stop", store |-> live]
        ELSE IF is_similar(live, text)
        THEN [outcome |-> "duplicate", store |-> live]
        ELSE IF ContainsKeyWords(text)
        THEN [outcome |-> "primary",
              store |-> Admit(live, text, current_time)]
        ELSE [outcome |-> "nokey", store |-> live]

\* the decision chain leaving the store write for after the forward
ClassifyAdmitLater(store, text, current_time) ==
    IF text = <<>>
    THEN [outcome |-> "notext", store |-> store]
    ELSE LET live == remove_old_messages(store, current_time)
         IN  IF ContainsStopWords(text)
             THEN [outcome |-> "stop", store |-> live]
             ELSE IF is_similar(live, text)
             THEN [outcome |-> "duplicate", store |-> live]
             ELSE IF ContainsKeyWords(text)
             THEN [outcome |-> "primary", store |-> live]
             ELSE [outcome |-> "nokey", store |-> live]

Classify(store, text, current_time) ==
    IF text = <<>>
    THEN [outcome |-> "notext", store |-> store]
    ELSE LET live == remove_old_messages(store, current_time)
         IN  IF ContainsStopWords(text)
             THEN [outcome |-> "stop", store |-> live]
             ELSE IF is_similar(live, text)
             THEN [outcome |-> "duplicate", store |-> live]
             ELSE IF ContainsKeyWords(text)
             THEN [outcome |-> "primary",
                   store |-> Admit(live, text, current_time)]
             ELSE [outcome |-> "nokey", store |-> live]

----------------------------------------------------------------------------
(* Start of the script.  config.py defines every required name; a value is *)
(* "set" (truthy), "empty" (a falsy value of its type: "", [], 0) or       *)
(* "none" (None).                                                          *)

\* the keys of required_globals, in the order validate_config tests them
required_globals ==
    << "API_ID", "API_HASH", "SESSION", "DESTINATION",
       "STOP_WORDS_DESTINATION", "CHATS", "KEY_WORDS", "STOP_WORDS" >>

ConfigNames == { required_globals[k] : k \in DOMAIN required_globals }

ConfigValues == {"set", "empty", "none"}

\* a config.py in which nothing is missing or empty
CompleteConfig == [n \in ConfigNames |-> "set"]

NoError == [type |-> "none", line |-> 0, names |-> {}]

\* the error that ends the module body (lines 1-150), if any.  Line 13
\* builds the client, which refuses a falsy API_ID or API_HASH with a
\* message about "API ID or Hash"; lines 25 and 28 iterate over STOP_WORDS
\* and KEY_WORDS, and iterating over None is a TypeError whose message names
\* no variable.
ModuleError(cfg) ==
    IF cfg["API_ID"] # "set" \/ cfg["API_HASH"] # "set"
    THEN [type |-> "ValueError", line |-> 13, names |-> {"API_ID", "API_HASH"}]
    ELSE IF cfg["STOP_WORDS"] = "none"
    THEN [type |-> "TypeError", line |-> 25, names |-> {}]
    ELSE IF cfg["KEY_WORDS"] = "none"
    THEN [type |-> "TypeError", line |-> 28, names |-> {}]
    ELSE NoError

\* the error validate_config raises, if any: a ValueError naming the first
\* required variable that is falsy
ValidateError(cfg) ==
    IF \E k \in DOMAIN required_globals : cfg[required_globals[k]] # "set"
    THEN LET k == CHOOSE k \in DOMAIN required_globals :
                     /\ cfg[required_globals[k]] # "set"
                     /\ \A j \in 1..(k - 1) : cfg[required_globals[j]] = "set"
         IN  [type |-> "ValueError", line |-> 47,
              names |-> {required_globals[k]}]
    ELSE NoError

\* what the start has reached: pc is "module", "validate", "main", "running"
\* or "failed"
At(pc, error) == [pc |-> pc, error |-> error]

\* python script3.py: the module body runs, up to line 153
LoadModule ==
    /\ startup.pc = "module"
    /\ startup' = IF ModuleError(config) = NoError
                  THEN At("validate", NoError)
                  ELSE At("failed", ModuleError(config))
    /\ UNCHANGED <<config, now, message_store, inbox, handlers, dispatched,
                   last>>

\* line 155
validate_config ==
    /\ startup.pc = "validate"
    /\ startup' = IF ValidateError(config) = NoError
                  THEN At("main", NoError)
                  ELSE At("failed", ValidateError(config))
    /\ UNCHANGED <<config, now, message_store, inbox, handlers, dispatched,
                   last>>

\* line 157: asyncio.run(main()) starts the client, which then receives events
main ==
    /\ startup.pc = "main"
    /\ startup' = At("running", NoError)
    /\ UNCHANGED <<config, now, message_store, inbox, handlers, dispatched,
                   last>>

----------------------------------------------------------------------------
(* State machine *)

\* no event has been dispatched since the last one arrived
NoEvent == [text |-> << >>, outcome |-> "none", swept |-> {}]

\* the relay running with a complete configuration
Init ==
    /\ config = CompleteConfig
    /\ startup = At("running", NoError)
    /\ now = 0
    /\ message_store = << >>
    /\ inbox = << >>
    /\ handlers = << >>
    /\ dispatched = 0
    /\ last = NoEvent

\* events.NewMessage(chats=CHATS): an event reaches the client.  Events are
\* dispatched in the order received, so the model lets the next one in when
\* the previous one has been handed to its handler task.
Arrive(text) ==
    /\ inbox = << >>
    /\ dispatched < MaxMsgs
    /\ inbox' = << text >>
    /\ last' = NoEvent
    /\ UNCHANGED <<config, startup, now, message_store, handlers, dispatched>>

\* the handler task of an event, started at current_time and suspended in
\* client.forward_messages(dest, ..)
Forwarding(text, dest, current_time) ==
    [text |-> text, pc |-> "forward", dest |-> dest, wake |-> 0,
     at |-> current_time]

\* the handler tasks after the first step of the task of event id
Started(hs, id, text, outcome, current_time) ==
    IF outcome = "stop"
    THEN (id :> Forwarding(text, STOP_WORDS_DESTINATION, current_time)) @@ hs
    ELSE IF outcome = "primary"
    THEN (id :> Forwarding(text, DESTINATION, current_time)) @@ hs
    ELSE hs

\* the client starts a handler task for the received event; the task runs up
\* to its first forward call, or to its return
Dispatch ==
    /\ inbox # << >>
    /\ LET text == Head(inbox)
           id   == dispatched + 1
           c    == Classify(message_store, text, now)
       IN  /\ inbox' = Tail(inbox)
           /\ dispatched' = id
           /\ message_store' = c.store
           /\ handlers' = Started(handlers, id, text, c.outcome, now)
           /\ last' = [text |-> text, outcome |-> c.outcome,
                       swept |-> { s \in DOMAIN message_store :
                                     \/ s \notin DOMAIN c.store
                                     \/ c.store[s] # message_store[s] }]
    /\ UNCHANGED <<config, startup, now>>

\* the handler without its try/except: the error leaves the handler
AfterForwardUncaught(h, ok, current_time) ==
    IF ~ok
    THEN [h EXCEPT !.pc = "raised"]
    ELSE IF h.dest = DESTINATION
    THEN [h EXCEPT !.pc = "pacing", !.wake = current_time + PACING_DELAY]
    ELSE [h EXCEPT !.pc = "done"]

\* the handler sleeping 2 seconds after every successful forward
AfterForwardAlwaysPaces(h, ok, current_time) ==
    IF ~ok
    THEN [h EXCEPT !.pc = "cooldown", !.wake = current_time + ERROR_DELAY]
    ELSE [h EXCEPT !.pc = "pacing", !.wake = current_time + PACING_DELAY]

\* what the handler does when its forward call returns (ok) or raises
AfterForward(h, ok, current_time) ==
    IF ~ok
    THEN [h EXCEPT !.pc = "cooldown", !.wake = current_time + ERROR_DELAY]
    ELSE IF h.dest = DESTINATION
    THEN [h EXCEPT !.pc = "pacing", !.wake = current_time + PACING_DELAY]
    ELSE [h EXCEPT !.pc = "done"]

\* the handler tasks without those that have returned
Running(hs) == [i \in { j \in DOMAIN hs : hs[j].pc # "done" } |-> hs[i]]

\* client.forward_messages returns or raises
ForwardReturns(i, ok) ==
    /\ i \in DOMAIN handlers
    /\ handlers[i].pc = "forward"
    /\ handlers' = Running([handlers EXCEPT
                               ![i] = AfterForward(handlers[i], ok, now)])
    /\ UNCHANGED <<config, startup, now, message_store, inbox, dispatched, last>>

\* asyncio.sleep is over: the handler returns
Wake(i) ==
    /\ i \in DOMAIN handlers
    /\ handlers[i].pc \in {"pacing", "cooldown"}
    /\ now >= handlers[i].wake
    /\ handlers' = Running([handlers EXCEPT ![i].pc = "done"])
    /\ UNCHANGED <<config, startup, now, message_store, inbox, dispatched, last>>

\* time passes
Tick(t) ==
    /\ t > now
    /\ now' = t
    /\ UNCHANGED <<config, startup, message_store, inbox, handlers, dispatched,
                   last>>

Next ==
    \/ \E text \in Texts : Arrive(text)
    \/ Dispatch
    \/ \E i \in 1..MaxMsgs, ok \in BOOLEAN : ForwardReturns(i, ok)
    \/ \E i \in 1..MaxMsgs : Wake(i)
    \/ \E t \in Instants : Tick(t)

Spec == Init /\ [][Next]_vars

\* the script is started with any config.py
StartupInit ==
    /\ config \in [ConfigNames -> ConfigValues]
    /\ startup = At("module", NoError)
    /\ now = 0
    /\ message_store = << >>
    /\ inbox = << >>
    /\ handlers = << >>
    /\ dispatched = 0
    /\ last = NoEvent

\* events are received, and time is observed, once the client runs
StartupNext ==
    \/ LoadModule
    \/ validate_config
    \/ main
    \/ (startup.pc = "running" /\ Next)

StartupSpec == StartupInit /\ [][StartupNext]_vars

\* the event loop runs every task that is ready: a received event is
\* dispatched, and a handler whose forward call has ended is resumed
FairSpec ==
    /\ Spec
    /\ WF_vars(Dispatch)
    /\ \A i \in 1..MaxMsgs : WF_vars(\E ok \in BOOLEAN : ForwardReturns(i, ok))

----------------------------------------------------------------------------
(* Vocabulary of the properties.  A step that dispatches an event is one   *)
(* that increases dispatched; the event is the one waiting in inbox.       *)

Dispatching == dispatched' = dispatched + 1

Event == Head(inbox)

\* s is in the store and not older than FILTER_DURATION
Live(s) ==
    /\ s \in DOMAIN message_store
    /\ now - message_store[s] <= FILTER_DURATION

\* some live entry of the store has ratio >= 90 with text
SimilarToLive(text) ==
    \E s \in DOMAIN message_store :
        Live(s) /\ ratio(s, text) >= SIMILARITY_THRESHOLD

\* the step makes exactly one forward call: the handler of the dispatched
\* event is now suspended in client.forward_messages(dest, event)
ForwardStarted(dest) ==
    /\ dispatched' \notin DOMAIN handlers
    /\ DOMAIN handlers' = (DOMAIN handlers) \cup {dispatched'}
    /\ handlers'[dispatched'] =
          [text |-> Event, pc |-> "forward", dest |-> dest, wake |-> 0,
           at |-> now]
    /\ \A j \in DOMAIN handlers : handlers'[j] = handlers[j]

\* the step makes no forward call and leaves no handler behind
NoForward == handlers' = handlers

\* the step leaves every live entry as it is and adds none
LiveEntriesKept ==
    /\ DOMAIN message_store' = { s \in DOMAIN message_store : Live(s) }
    /\ \A s \in DOMAIN message_store' : message_store'[s] = message_store[s]

----------------------------------------------------------------------------
(* C1 - stop-phrase precedence.  Every event with text that contains a     *)
(* stop word is forwarded to STOP_WORDS_DESTINATION by exactly one forward *)
(* call, whatever the store holds and whether or not it also has a key     *)
(* word; it is never sent to DESTINATION and its text never enters the     *)
(* store, and no text with a stop word is ever in the store.               *)

C1_StopPrecedence ==
    /\ [](\A i \in DOMAIN handlers :
            contains_stop_words(handlers[i].text)
                => handlers[i].dest = STOP_WORDS_DESTINATION)
    /\ [](\A s \in DOMAIN message_store : ~contains_stop_words(s))
    /\ [][ (Dispatching /\ Event # << >> /\ contains_stop_words(Event))
            => /\ ForwardStarted(STOP_WORDS_DESTINATION)
               /\ Event \notin DOMAIN message_store'
               /\ DOMAIN message_store' \subseteq DOMAIN message_store
         ]_vars

\* a message with a stop word and a key word, >= 90 similar to a live entry
\* of the store, has just been forwarded to STOP_WORDS_DESTINATION
C1_Witness ==
    /\ last.outcome = "stop"
    /\ contains_key_words(last.text)
    /\ SimilarToLive(last.text)
    /\ dispatched \in DOMAIN handlers
    /\ handlers[dispatched].pc = "forward"
    /\ handlers[dispatched].dest = STOP_WORDS_DESTINATION
    /\ handlers[dispatched].text = last.text

----------------------------------------------------------------------------
(* C2 - duplicate suppression, as stated: an event without stop word whose *)
(* text has ratio >= 90 with an entry that is in the store when it is      *)
(* handled is dropped, and the store is left exactly as it was.            *)

----------------------------------------------------------------------------
(* C3 - keyword admission.  An event with text, without stop word, not     *)
(* >= 90 similar to any live entry, and with a key word is stored under    *)
(* its raw text with the current time, and exactly one forward call is     *)
(* made, to DESTINATION; the other live entries are kept as they are.      *)

C3_KeywordAdmission ==
    [][ (/\ Dispatching /\ Event # << >> /\ ~contains_stop_words(Event)
         /\ ~SimilarToLive(Event) /\ contains_key_words(Event))
        => /\ ForwardStarted(DESTINATION)
           /\ DOMAIN message_store' =
                 { s \in DOMAIN message_store : Live(s) } \cup {Event}
           /\ message_store'[Event] = now
           /\ \A s \in DOMAIN message_store' :
                 s # Event => message_store'[s] = message_store[s]
      ]_vars

\* a message whose raw text differs from its normalized form has just been
\* admitted under the raw text, next to another live entry, and its forward
\* to DESTINATION is in flight
C3_Witness ==
    /\ last.outcome = "primary"
    /\ last.text # remove_spaces(lower(last.text))
    /\ last.text \in DOMAIN message_store
    /\ message_store[last.text] = now
    /\ \E s \in DOMAIN message_store : s # last.text /\ Live(s)
    /\ dispatched \in DOMAIN handlers
    /\ handlers[dispatched] = [text |-> last.text, pc |-> "forward",
                               dest |-> DESTINATION, wake |-> 0, at |-> now]

----------------------------------------------------------------------------
(* C4 - keyword gating.  An event with text, without stop word, without a  *)
(* similar live entry and without key word is dropped: no forward call is  *)
(* made and nothing is added to the store.                                 *)

C4_KeywordGating ==
    [][ (/\ Dispatching /\ Event # << >> /\ ~contains_stop_words(Event)
         /\ ~SimilarToLive(Event) /\ ~contains_key_words(Event))
        => (NoForward /\ LiveEntriesKept)
      ]_vars

\* a message with text and no key word has just been dropped while the
\* store holds a live entry
C4_Witness ==
    /\ last.outcome = "nokey"
    /\ last.text # << >>
    /\ \E s \in DOMAIN message_store : Live(s)
    /\ last.text \notin DOMAIN message_store
    /\ \A i \in DOMAIN handlers : handlers[i].text # last.text

----------------------------------------------------------------------------
(* C5 - variants in case, spacing and trailing punctuation.                *)

Punctuation == {"!", "?", "."}

RECURSIVE StripTrailing(_)
StripTrailing(t) ==
    IF t # << >> /\ t[Len(t)] \in Punctuation
    THEN StripTrailing(SubSeq(t, 1, Len(t) - 1))
    ELSE t

\* a and b differ at most in letter case, spacing and trailing punctuation
Variant(a, b) ==
    StripTrailing(remove_spaces(lower(a))) = StripTrailing(remove_spaces(lower(b)))

\* the dispatched event has a key word, no stop word, and is a variant of a
\* live entry of the store
VariantOfLive ==
    /\ Dispatching /\ Event # << >>
    /\ ~contains_stop_words(Event) /\ contains_key_words(Event)
    /\ \E s \in DOMAIN message_store : Live(s) /\ Variant(s, Event)

(* C5, as stated: a message that is a variant of a live entry of the store *)
(* is dropped instead of being forwarded to the primary destination.       *)

C5_AsStated == [][ VariantOfLive => NoForward ]_vars

(* C5, amended: the raw texts are compared.  A variant of a live entry is  *)
(* dropped exactly when its raw ratio with some live entry is >= 90;       *)
(* otherwise it is admitted under its own raw text and forwarded to        *)
(* DESTINATION.                                                            *)

C5_RawComparison ==
    [][ VariantOfLive
        => IF SimilarToLive(Event)
           THEN NoForward /\ LiveEntriesKept
           ELSE /\ ForwardStarted(DESTINATION)
                /\ Event \in DOMAIN message_store'
                /\ message_store'[Event] = now
      ]_vars

\* a variant of a live entry, with raw ratio below 90, has just been
\* admitted next to that entry, and its forward to DESTINATION is in flight
C5_Witness ==
    /\ last.outcome = "primary"
    /\ last.text \in DOMAIN message_store
    /\ message_store[last.text] = now
    /\ \E s \in DOMAIN message_store :
          /\ s # last.text /\ Live(s) /\ Variant(s, last.text)
          /\ ratio(s, last.text) < SIMILARITY_THRESHOLD
    /\ dispatched \in DOMAIN handlers
    /\ handlers[dispatched].dest = DESTINATION
    /\ handlers[dispatched].pc = "forward"

----------------------------------------------------------------------------
(* C6 - expiry.  When a message identical to an entry admitted at T is     *)
(* handled, it is dropped and the entry kept if no more than 23 h 59 min   *)
(* have passed; if 24 h 1 min or more have passed (and no other live entry *)
(* is similar) the entry is replaced by a fresh one stamped now and the    *)
(* message is forwarded to DESTINATION.                                    *)

JustInside == FILTER_DURATION - 60

JustOutside == FILTER_DURATION + 60

C6_Expiry ==
    [][ (/\ Dispatching /\ Event # << >>
         /\ Event \in DOMAIN message_store
         /\ ~contains_stop_words(Event) /\ contains_key_words(Event))
        => LET age == now - message_store[Event]
           IN  /\ age <= JustInside
                   => /\ NoForward
                      /\ Event \in DOMAIN message_store'
                      /\ message_store'[Event] = message_store[Event]
               /\ (age >= JustOutside /\ ~SimilarToLive(Event))
                   => /\ ForwardStarted(DESTINATION)
                      /\ Event \in DOMAIN message_store'
                      /\ message_store'[Event] = now
      ]_vars

\* 24 h 1 min after the start, a message identical to an entry admitted at
\* the start has had that entry swept and has just been admitted afresh
C6_Witness ==
    /\ now = JustOutside
    /\ last.outcome = "primary"
    /\ last.text \in last.swept
    /\ last.text \in DOMAIN message_store
    /\ message_store[last.text] = now
    /\ dispatched \in DOMAIN handlers
    /\ handlers[dispatched].dest = DESTINATION

----------------------------------------------------------------------------
(* C7 - pacing.  While a handler is in its 2-second sleep after a          *)
(* successful forward to DESTINATION, no other forward to DESTINATION      *)
(* starts.                                                                 *)

C7_Pacing ==
    [][ (\E i \in DOMAIN handlers :
            handlers[i].pc = "pacing" /\ now < handlers[i].wake)
        => ~(/\ Dispatching
             /\ dispatched' \in DOMAIN handlers'
             /\ handlers'[dispatched'].dest = DESTINATION)
      ]_vars

----------------------------------------------------------------------------
(* C8 - failure cooldown.  While a handler is in its 60-second sleep after *)
(* an error, no further event (with text) is classified or forwarded.      *)

C8_Cooldown ==
    [][ (\E i \in DOMAIN handlers :
            handlers[i].pc = "cooldown" /\ now < handlers[i].wake)
        => ~(Dispatching /\ Event # << >>)
      ]_vars

----------------------------------------------------------------------------
(* C9 - sequential processing.  No event (with text) is classified while   *)
(* the handler of an earlier event has not returned yet (it is in its      *)
(* forward call or in its pacing or cooldown sleep).                       *)

C9_Sequential ==
    [][ handlers # << >> => ~(Dispatching /\ Event # << >>) ]_vars

----------------------------------------------------------------------------
(* C10 - survival of per-message failures.  An error of a forward call is  *)
(* caught inside the handler (the handler is then in its cooldown sleep,   *)
(* never left by the error); the failed handler makes no further forward   *)
(* call, and a handler that has returned never runs again; a received      *)
(* event never waits forever to be dispatched, and a handler never waits   *)
(* forever in its forward call.                                            *)

C10_Survival ==
    /\ [](\A i \in DOMAIN handlers :
            handlers[i].pc \in {"forward", "pacing", "cooldown"})
    /\ [][ \A i \in DOMAIN handlers :
              handlers[i].pc = "cooldown"
                 => (i \notin DOMAIN handlers' \/ handlers'[i] = handlers[i])
         ]_vars
    /\ [][ \A i \in 1..dispatched :
              i \notin DOMAIN handlers => i \notin DOMAIN handlers'
         ]_vars
    /\ []<>(inbox = << >>)
    /\ \A i \in 1..MaxMsgs :
          []<>(i \notin DOMAIN handlers \/ handlers[i].pc # "forward")

\* a forward call has failed and its handler is in the cooldown sleep; a
\* message received after the failure has been admitted and forwarded to
\* DESTINATION, and that forward call has succeeded
C10_Witness ==
    /\ dispatched \in DOMAIN handlers
    /\ handlers[dispatched].pc = "pacing"
    /\ last.outcome = "primary"
    /\ last.text \in DOMAIN message_store
    /\ \E i \in DOMAIN handlers :
          /\ handlers[i].pc = "cooldown"
          /\ message_store[last.text] > handlers[i].wake - ERROR_DELAY

----------------------------------------------------------------------------
(* C11 - eager configuration validation.  In a run whose config.py has a   *)
(* required variable missing or empty, the start fails with the error of   *)
(* validate_config that names such a variable; the client is never started *)
(* and no event is consumed: nothing is received, forwarded or stored.     *)

Faulty == { n \in ConfigNames : config[n] # "set" }

C11_EagerValidation ==
    /\ startup.pc = "failed"
           => startup.error.names \cap Faulty # {}
    /\ Faulty # {}
           => /\ startup.pc \notin {"main", "running"}
              /\ message_store = << >>
              /\ handlers = << >>
              /\ inbox = << >>
              /\ dispatched = 0

----------------------------------------------------------------------------
(* C12 - phrase matching.  Without(t, chars) is t with every character of  *)
(* chars deleted; a phrase is found in a text when the phrase, lowercased  *)
(* and without the characters of chars, is a substring of the text,        *)
(* lowercased and without the characters of chars.                         *)

Whitespace == {" ", "\t", "\n"}

RECURSIVE Without(_, _)
Without(t, chars) ==
    IF t = << >> THEN << >>
    ELSE IF Head(t) \in chars THEN Without(Tail(t), chars)
    ELSE << Head(t) >> \o Without(Tail(t), chars)

PhraseIn(phrases, text, chars) ==
    \E p \in phrases :
        IsSubstring(Without(lower(p), chars), Without(lower(text), chars))

\* the event goes to STOP_WORDS_DESTINATION exactly when a stop phrase is
\* found in it, and (when it is not a duplicate) to DESTINATION exactly when
\* no stop phrase and a key phrase is found in it
MatchesDecide(chars) ==
    (Dispatching /\ Event # << >>)
        => /\ contains_stop_words(Event) <=> PhraseIn(STOP_WORDS, Event, chars)
           /\ contains_key_words(Event) <=> PhraseIn(KEY_WORDS, Event, chars)
           /\ ForwardStarted(STOP_WORDS_DESTINATION)
                 <=> PhraseIn(STOP_WORDS, Event, chars)
           /\ ForwardStarted(DESTINATION)
                 <=> /\ ~PhraseIn(STOP_WORDS, Event, chars)
                     /\ ~SimilarToLive(Event)
                     /\ PhraseIn(KEY_WORDS, Event, chars)

(* C12, as stated: the stop-phrase and key-phrase tests ignore letter case *)
(* and ALL whitespace (spaces, tabs, newlines) of the phrase and the text. *)

C12_AsStated == [][ MatchesDecide(Whitespace) ]_vars

(* C12, amended: the tests ignore letter case and the space character      *)
(* only; a tab or a newline inside a phrase of the message keeps the       *)
(* phrase from matching.                                                   *)

C12_SpaceInsensitive == [][ MatchesDecide({" "}) ]_vars

\* a message in which a tab splits the stop phrase (and the key phrase) has
\* just been handled: it matched no phrase, and was dropped for lack of a
\* key phrase
C12_Witness ==
    /\ last.outcome = "nokey"
    /\ \E k \in DOMAIN last.text : last.text[k] = "\t"
    /\ PhraseIn(STOP_WORDS, last.text, Whitespace)
    /\ PhraseIn(KEY_WORDS, last.text, Whitespace)
    /\ ~PhraseIn(STOP_WORDS, last.text, {" "})
    /\ ~PhraseIn(KEY_WORDS, last.text, {" "})
    /\ handlers = << >>

----------------------------------------------------------------------------
(* C13 - normalization is idempotent: for every text the relay meets,      *)
(* lowercasing and removing the spaces of the normalized text gives the    *)
(* normalized text again.                                                  *)

\* remove_spaces(x.lower())
Normalized(x) == remove_spaces(lower(x))

\* the texts of the events received, being handled, handled last, or stored
TextsInState ==
    { inbox[k] : k \in DOMAIN inbox }
        \cup { handlers[i].text : i \in DOMAIN handlers }
        \cup DOMAIN message_store
        \cup { last.text }

C13_Idempotence ==
    \A x \in TextsInState : Normalized(Normalized(x)) = Normalized(x)

\* a text with capital letters and two spaces in a row has been normalized
\* by the handler, found to hold a key phrase, and admitted
C13_Witness ==
    /\ last.outcome = "primary"
    /\ last.text \in DOMAIN message_store
    /\ lower(last.text) # last.text
    /\ \E k \in 1..(Len(last.text) - 1) :
          last.text[k] = " " /\ last.text[k + 1] = " "
    /\ Len(Normalized(last.text)) = Len(last.text) - 2
    /\ contains_key_words(Normalized(last.text))

----------------------------------------------------------------------------
(* C14 - no timestamp refresh.  No step overwrites the timestamp of an     *)
(* entry that stays live: the timestamp of a stored text changes only in   *)
(* the handling of a message with that very text, when the entry is older  *)
(* than FILTER_DURATION, is swept, and the text is admitted anew with the  *)
(* current time.  A repeat of a live entry leaves its timestamp alone.     *)

C14_NoRefresh ==
    [][ \A s \in DOMAIN message_store :
           /\ (s \in DOMAIN message_store' /\ message_store'[s] # message_store[s])
                 => /\ now - message_store[s] > FILTER_DURATION
                    /\ message_store'[s] = now
                    /\ Dispatching /\ Event = s
           /\ (Dispatching /\ Event = s /\ Live(s))
                 => /\ s \in DOMAIN message_store'
                    /\ message_store'[s] = message_store[s]
                    /\ NoForward
      ]_vars

\* an exact repeat of a stored text, received after its admission and
\* within FILTER_DURATION, has just been dropped, and the entry still bears
\* the time of its admission
C14_Witness ==
    /\ last.outcome = "duplicate"
    /\ last.text \in DOMAIN message_store
    /\ message_store[last.text] < now
    /\ Live(last.text)
    /\ last.swept = {}

----------------------------------------------------------------------------
(* C15 - the sweep.  When a message with text is handled, the entries      *)
(* older than FILTER_DURATION are removed (one of them comes back only as  *)
(* the fresh entry of the message itself) and every other entry, one aged  *)
(* exactly FILTER_DURATION included, is kept with its timestamp; so the    *)
(* store the similarity check reads, and the store the handler leaves,     *)
(* hold only entries aged FILTER_DURATION or less, and a message with a    *)
(* key phrase and no stop phrase is dropped only for a live similar entry. *)

C15_Sweep ==
    [][ (Dispatching /\ Event # << >>)
        => /\ \A s \in DOMAIN message_store :
                 IF now - message_store[s] > FILTER_DURATION
                 THEN s \in DOMAIN message_store'
                         => (s = Event /\ message_store'[s] = now)
                 ELSE /\ s \in DOMAIN message_store'
                      /\ message_store'[s] = message_store[s]
           /\ \A s \in DOMAIN message_store' :
                 now - message_store'[s] <= FILTER_DURATION
           /\ (/\ ~contains_stop_words(Event) /\ contains_key_words(Event)
               /\ NoForward)
                 => SimilarToLive(Event)
      ]_vars

\* exactly 24 h after an entry was admitted, a message similar to it has
\* been handled: the sweep kept the entry and the message was dropped
C15_Witness ==
    /\ last.outcome = "duplicate"
    /\ last.swept = {}
    /\ \E s \in DOMAIN message_store :
          /\ now - message_store[s] = FILTER_DURATION
          /\ ratio(s, last.text) >= SIMILARITY_THRESHOLD
          /\ \A r \in DOMAIN message_store : r = s

----------------------------------------------------------------------------
(* C16 - only a message that was sent suppresses later ones.  When the     *)
(* forward to DESTINATION of the message handled last fails, its text is   *)
(* no longer in the store (so that a later message with that text is not   *)
(* dropped as a duplicate).                                                *)

C16_FailedForwardForgotten ==
    [][ \A i \in DOMAIN handlers :
           (/\ i = dispatched /\ last.outcome = "primary"
            /\ handlers[i].pc = "forward"
            /\ handlers[i].dest = DESTINATION
            /\ i \in DOMAIN handlers'
            /\ handlers'[i].pc = "cooldown")
           => handlers[i].text \notin DOMAIN message_store'
      ]_vars

----------------------------------------------------------------------------
(* C17 - a message without text.  Its handler returns at once: the store   *)
(* is left exactly as it was (no sweep, expired entries stay), no forward  *)
(* call is made and no sleep is started.                                   *)

C17_NoText ==
    [][ (Dispatching /\ Event = << >>)
        => /\ message_store' = message_store
           /\ handlers' = handlers
           /\ dispatched' \notin DOMAIN handlers'
      ]_vars

\* a message without text has just been handled while the store holds an
\* entry older than FILTER_DURATION, which is still there
C17_Witness ==
    /\ last.outcome = "notext"
    /\ last.swept = {}
    /\ \E s \in DOMAIN message_store : ~Live(s)
    /\ dispatched \notin DOMAIN handlers

----------------------------------------------------------------------------
(* C18 - where the 2-second delay applies.  A handler is in the pacing     *)
(* sleep only after its forward to DESTINATION, and the sleep ends 2       *)
(* seconds after that forward returned; a handler that forwarded to        *)
(* STOP_WORDS_DESTINATION returns when the forward returns (or enters the  *)
(* cooldown when it fails), and a handler that drops its message returns   *)
(* in that very step.                                                      *)

C18_PacingOnlyAfterPrimary ==
    /\ [](\A i \in DOMAIN handlers :
            handlers[i].pc = "pacing" => handlers[i].dest = DESTINATION)
    /\ [][ \A i \in DOMAIN handlers' :
              (/\ handlers'[i].pc = "pacing"
               /\ (i \notin DOMAIN handlers \/ handlers[i].pc # "pacing"))
              => /\ i \in DOMAIN handlers
                 /\ handlers[i].pc = "forward"
                 /\ handlers[i].dest = DESTINATION
                 /\ handlers'[i].wake = now + PACING_DELAY
         ]_vars
    /\ [][ \A i \in DOMAIN handlers :
              (/\ handlers[i].pc = "forward"
               /\ handlers[i].dest = STOP_WORDS_DESTINATION)
              => \/ i \notin DOMAIN handlers'
                 \/ handlers'[i] = handlers[i]
                 \/ handlers'[i].pc = "cooldown"
         ]_vars
    /\ [][ (/\ Dispatching
            /\ ~ForwardStarted(STOP_WORDS_DESTINATION)
            /\ ~ForwardStarted(DESTINATION))
           => (handlers' = handlers /\ dispatched' \notin DOMAIN handlers')
         ]_vars

\* the forward of a message to STOP_WORDS_DESTINATION has succeeded and its
\* handler has returned in the same instant, while another handler is in
\* its pacing sleep
C18_Witness ==
    /\ last.outcome = "stop"
    /\ dispatched \notin DOMAIN handlers
    /\ \E i \in DOMAIN handlers :
          /\ handlers[i].pc = "pacing"
          /\ handlers[i].wake = now + PACING_DELAY

----------------------------------------------------------------------------
(* C19 - check and admission are one step.  While the handler of a message *)
(* sent to DESTINATION is still running (in its forward call or in a       *)
(* sleep), a message with a key phrase and no stop phrase that is >= 90    *)
(* similar to it and is handled within FILTER_DURATION of it is dropped:   *)
(* of the two, at most one is forwarded to DESTINATION, whatever the first *)
(* handler is doing.                                                       *)

C19_AtomicCheckAndAdmit ==
    [][ \A i \in DOMAIN handlers :
           (/\ Dispatching /\ Event # << >>
            /\ ~contains_stop_words(Event) /\ contains_key_words(Event)
            /\ handlers[i].dest = DESTINATION
            /\ ratio(handlers[i].text, Event) >= SIMILARITY_THRESHOLD
            /\ now - handlers[i].at <= FILTER_DURATION)
           => (NoForward /\ LiveEntriesKept)
      ]_vars

\* while the forward of a message to DESTINATION is still in flight, a
\* different message >= 90 similar to it has been handled and dropped
C19_Witness ==
    /\ last.outcome = "duplicate"
    /\ contains_key_words(last.text)
    /\ dispatched \notin DOMAIN handlers
    /\ \E i \in DOMAIN handlers :
          /\ i < dispatched
          /\ handlers[i].pc = "forward"
          /\ handlers[i].dest = DESTINATION
          /\ handlers[i].text # last.text
          /\ ratio(handlers[i].text, last.text) >= SIMILARITY_THRESHOLD
          /\ handlers[i].at < now
    /\ \A i \in DOMAIN handlers : handlers[i].text # last.text

----------------------------------------------------------------------------
(* C20 - the stored texts.  In every reachable state, every stored text    *)
(* has a key phrase and no stop phrase, and no two distinct stored texts   *)
(* have ratio >= 90.                                                       *)

C20_StoreDissimilar ==
    \A s \in DOMAIN message_store :
        /\ contains_key_words(s)
        /\ ~contains_stop_words(s)
        /\ \A r \in DOMAIN message_store :
              r # s => Ratio(r, s) < SIMILARITY_THRESHOLD

\* the store holds two distinct texts, the second admitted while the first
\* was still live
C20_Witness ==
    /\ last.outcome = "primary"
    /\ last.text \in DOMAIN message_store
    /\ \E s \in DOMAIN message_store :
          /\ s # last.text
          /\ Live(s)
          /\ message_store[s] < message_store[last.text]
          /\ ratio(s, last.text) < SIMILARITY_THRESHOLD

====
